---------------------------- MODULE Spec2Model ----------------------------
(***************************************************************************)
(* Model of the three n8n Python code-node scripts of tsekula/n8n-python:  *)
(*   n8n-replace-text.py        text replacement over a batch of decks     *)
(*   n8n-output-slides-text.py  slide text extraction over a batch         *)
(*   n8n-create-blank-time.py   silent audio synthesis through ffmpeg      *)
(* Strings are sequences of one-character strings, a file name is a        *)
(* string, a path is a sequence of components whose last is the file name. *)
(***************************************************************************)
EXTENDS Integers, Sequences, FiniteSets, TLC

VARIABLES
    \* n8n-replace-text.py
    items,      \* the input list; its dicts are mutated in place
    new_items,  \* the accumulator returned at the end
    idx,        \* number of items the for loop has consumed
    disk,       \* path -> Absent | Corrupt | deck
    locked,     \* paths at which a write raises (read-only target)
    items0,     \* the input as given (history)
    disk0,      \* the file system as found (history)
    outcomes,   \* the branch each consumed item took (history)
    loaded,     \* what the last iteration found at its file_path (history)
    pc,         \* "loop" | "done" | "raised"
    \* n8n-output-slides-text.py
    x_items, x_results, x_idx, x_disk, x_pc,
    \* n8n-create-blank-time.py
    env,        \* what the execution environment offers the locator
    a_files,    \* destination -> 0 (absent) | number of the call that wrote it
    a_dirs,     \* directories that exist
    calls,      \* number of n8n_execute calls made
    last,       \* the call at hand: its request, then also its result
    \* get_codec_for_format
    fmt, codec

replaceVars == <<items, new_items, idx, disk, locked, items0, disk0, outcomes, loaded, pc>>
extractVars == <<x_items, x_results, x_idx, x_disk, x_pc>>
audioVars   == <<env, a_files, a_dirs, calls, last>>
codecVars   == <<fmt, codec>>
vars == <<replaceVars, extractVars, audioVars, codecVars>>

-----------------------------------------------------------------------------
(* Bounds *)
MaxParaLen   == 3   \* longest generated paragraph
MaxSearchLen == 2   \* longest generated searchText
MaxItems     == 2   \* longest batch
MaxCalls     == 2   \* n8n_execute calls in a run
MaxFmtLen    == 2   \* longest generated unknown format string

-----------------------------------------------------------------------------
(* Strings *)
Alphabet == {"a", "b"}

RECURSIVE StrsOfLen(_, _)
StrsOfLen(A, n) ==
    IF n = 0 THEN {<<>>}
    ELSE {<<c>> \o s : c \in A, s \in StrsOfLen(A, n - 1)}

StrsUpTo(A, n) == UNION {StrsOfLen(A, k) : k \in 0..n}

SeqsUpTo(S, n) == UNION {[1..k -> S] : k \in 0..n}

Drop(s, n) == SubSeq(s, n + 1, Len(s))

EndsWith(s, p) == Len(p) <= Len(s) /\ SubSeq(s, Len(s) - Len(p) + 1, Len(s)) = p

\* str.find(sub, start): the least position >= start at which sub occurs, 0 if none
Find(s, sub, start) ==
    LET hits == {k \in start..(Len(s) - Len(sub) + 1) :
                    SubSeq(s, k, k + Len(sub) - 1) = sub}
    IN  IF hits = {} THEN 0 ELSE CHOOSE k \in hits : \A j \in hits : k <= j

\* the `in` operator on strings
Contains(s, sub) == Find(s, sub, 1) # 0

RECURSIVE Interleave(_, _)
Interleave(s, new) ==
    IF s = <<>> THEN new ELSE new \o <<Head(s)>> \o Interleave(Tail(s), new)

RECURSIVE ReplaceFrom(_, _, _, _)
ReplaceFrom(s, old, new, pos) ==
    LET k == Find(s, old, pos)
    IN  IF k = 0 THEN SubSeq(s, pos, Len(s))
        ELSE SubSeq(s, pos, k - 1) \o new \o ReplaceFrom(s, old, new, k + Len(old))

\* a faulty variant of PyReplace: only the first occurrence is replaced
PyReplaceFirstOnly(s, old, new) ==
    LET k == Find(s, old, 1)
    IN  IF k = 0 THEN s
        ELSE SubSeq(s, 1, k - 1) \o new \o Drop(s, k - 1 + Len(old))

\* str.replace(old, new): every occurrence, found left to right from the end of
\* the previous one; an empty old matches before every character and at the end
PyReplace(s, old, new) ==
    IF old = <<>> THEN Interleave(s, new) ELSE ReplaceFrom(s, old, new, 1)


-----------------------------------------------------------------------------
(* Dicts: a dict is a function whose domain is the set of keys present *)
Get(d, k, default) == IF k \in DOMAIN d THEN d[k] ELSE default

Put(d, k, v) == (k :> v) @@ d

(* Paths *)
Basename(path) == IF path = <<>> THEN <<>> ELSE path[Len(path)]

Dirname(path) == IF path = <<>> THEN <<>> ELSE SubSeq(path, 1, Len(path) - 1)

Join(dir, name) == Append(dir, name)

ModifiedPrefix == <<"m", "o", "d", "i", "f", "i", "e", "d", "_">>

\* a faulty variant of OutputPath: the deck is saved over its source
OutputPathInPlace(file_path) == file_path

\* n8n-replace-text.py lines 34-35
OutputPath(file_path) ==
    Join(Dirname(file_path), ModifiedPrefix \o Basename(file_path))

(* File contents *)
Absent == [kind |-> "absent"]

Corrupt == [kind |-> "corrupt"]  \* exists, and Presentation(path) raises

DeckFile(slides) == [kind |-> "deck", slides |-> slides]

Exists(d, path) == path \in DOMAIN d /\ d[path].kind # "absent"

(* Shapes of a slide *)
TextShape(paragraphs) ==
    [has_text_frame |-> TRUE, has_table |-> FALSE,
     paragraphs |-> paragraphs, table |-> <<>>]

TableShape(rows) ==
    [has_text_frame |-> FALSE, has_table |-> TRUE,
     paragraphs |-> <<>>, table |-> rows]

PictureShape ==
    [has_text_frame |-> FALSE, has_table |-> FALSE,
     paragraphs |-> <<>>, table |-> <<>>]

Slide(shapes, notes) == [shapes |-> shapes, notes |-> notes]

DefaultSearchText == <<"O", "L", "D", " ", "T", "E", "X", "T">>

DefaultReplaceText == <<"N", "E", "W", " ", "T", "E", "X", "T">>

\* lines 30-31
ReplaceInParagraph(text, search_text, replace_text) ==
    IF Contains(text, search_text)
    THEN PyReplace(text, search_text, replace_text)
    ELSE text

\* lines 26-31
ReplaceInShape(shape, search_text, replace_text) ==
    IF shape.has_text_frame
    THEN [shape EXCEPT !.paragraphs = [p \in DOMAIN shape.paragraphs |->
            ReplaceInParagraph(shape.paragraphs[p], search_text, replace_text)]]
    ELSE shape

\* lines 24-31: every shape of every slide, in order; notes are not visited
ReplaceInSlides(slides, search_text, replace_text) ==
    [s \in DOMAIN slides |->
        [slides[s] EXCEPT !.shapes = [k \in DOMAIN slides[s].shapes |->
            ReplaceInShape(slides[s].shapes[k], search_text, replace_text)]]]

LoadErrorText == "Package not found"

SaveErrorText == "Permission denied"

\* The first branch of the loop body that applies to the item
Outcome(item, d, lk) ==
    LET file_path == Get(item, "file_path", <<>>)
    IN  IF ~(file_path # <<>> /\ Exists(d, file_path)) THEN "not_found"
        ELSE IF d[file_path].kind # "deck" THEN "load_raises"
        ELSE IF OutputPath(file_path) \in lk THEN "save_raises"
        ELSE "replaced"

\* a faulty variant of ExceptHandler's reach: only OSError is caught
CatchesOnlyOSError(failure) == failure = "save_raises"

\* line 48: `except Exception` catches whatever the load and the save raise
Catches(failure) == failure \in {"load_raises", "save_raises"}

\* lines 48-51
ExceptHandler(item, message) ==
    Put(Put(item, "status", <<"Error processing PowerPoint file">>),
        "error", message)

\* lines 44-46
NotFoundBranch(item) ==
    Put(Put(item, "status", <<"File not found: ", Get(item, "file_path", <<>>)>>),
        "error", "Invalid file path or file does not exist")

\* lines 40-42
SuccessBranch(item) ==
    Put(Put(item, "status", <<"Text replaced successfully">>),
        "output_path", OutputPath(item.file_path))

\* a faulty variant of ModifiedDeck: the search text is the one the previous
\* iteration left behind
ModifiedDeckCarriedSearch(item, d) ==
    LET from == IF new_items = <<>> THEN item ELSE new_items[Len(new_items)]
    IN  DeckFile(ReplaceInSlides(d[item.file_path].slides,
                                 Get(from, "searchText", DefaultSearchText),
                                 Get(item, "replaceText", DefaultReplaceText)))

\* lines 17-31: the deck held in memory when save is called
ModifiedDeck(item, d) ==
    DeckFile(ReplaceInSlides(d[item.file_path].slides,
                             Get(item, "searchText", DefaultSearchText),
                             Get(item, "replaceText", DefaultReplaceText)))

\* lines 10-51: one pass of the loop body over item, on file system d
LoopBody(item, d, lk) ==
    LET o == Outcome(item, d, lk)
    IN  CASE o = "not_found"   -> [item |-> NotFoundBranch(item), disk |-> d]
          [] o = "load_raises" -> [item |-> ExceptHandler(item, LoadErrorText), disk |-> d]
          [] o = "save_raises" -> [item |-> ExceptHandler(item, SaveErrorText), disk |-> d]
          [] o = "replaced"    ->
                [item |-> SuccessBranch(item),
                 disk |-> [d EXCEPT ![OutputPath(item.file_path)] = ModifiedDeck(item, d)]]


-----------------------------------------------------------------------------
(* n8n-replace-text.py: the batch loop *)

\* The loop has an item left and its body takes branch o
Takes(o) ==
    /\ pc = "loop"
    /\ idx < Len(items)
    /\ Outcome(items[idx + 1], disk, locked) = o

\* Lines 10-53 for the item at hand: the body, then new_items.append(item)
Commit(o) ==
    LET r == LoopBody(items[idx + 1], disk, locked)
    IN  /\ items' = [items EXCEPT ![idx + 1] = r.item]
        /\ new_items' = Append(new_items, r.item)
        /\ disk' = r.disk
        /\ idx' = idx + 1
        /\ outcomes' = Append(outcomes, o)
        /\ loaded' = IF o = "not_found" THEN Absent
                     ELSE disk[items[idx + 1].file_path]
        /\ pc' = pc

\* Lines 48-53 when the body raised: handled if the except clause catches it,
\* otherwise the exception leaves the loop and the script
CatchOrPropagate(o) ==
    IF Catches(o)
    THEN Commit(o)
    ELSE /\ pc' = "raised"
         /\ UNCHANGED <<items, new_items, idx, disk, outcomes, loaded>>

\* lines 15, 44-46, 53
ItemFileNotFound ==
    /\ Takes("not_found")
    /\ Commit("not_found")
    /\ UNCHANGED <<locked, items0, disk0>>
    /\ UNCHANGED <<extractVars, audioVars, codecVars>>

\* lines 21, 48-53
ItemLoadRaises ==
    /\ Takes("load_raises")
    /\ CatchOrPropagate("load_raises")
    /\ UNCHANGED <<locked, items0, disk0>>
    /\ UNCHANGED <<extractVars, audioVars, codecVars>>

\* lines 21-38, 48-53
ItemSaveRaises ==
    /\ Takes("save_raises")
    /\ CatchOrPropagate("save_raises")
    /\ UNCHANGED <<locked, items0, disk0>>
    /\ UNCHANGED <<extractVars, audioVars, codecVars>>

\* lines 15-42, 53
ItemReplaced ==
    /\ Takes("replaced")
    /\ Commit("replaced")
    /\ UNCHANGED <<locked, items0, disk0>>
    /\ UNCHANGED <<extractVars, audioVars, codecVars>>

\* line 55
ReturnNewItems ==
    /\ pc = "loop"
    /\ idx = Len(items)
    /\ pc' = "done"
    /\ UNCHANGED <<items, new_items, idx, disk, locked, items0, disk0, outcomes, loaded>>
    /\ UNCHANGED <<extractVars, audioVars, codecVars>>

(* Inputs of the replacement script *)
FileX == <<<<"d">>, <<"x">>>>

FileMX == OutputPath(FileX)

FileMMX == OutputPath(FileMX)

\* One deck with text frames, a table, a picture and notes around paragraph p
DeckAround(p) ==
    << Slide(<< TextShape(<<p, <<"a", "b">> >>),
                TableShape(<< <<<<"a">>, <<>>>>, <<<<"b", "a">>, <<"a", "a">>>> >>),
                PictureShape >>,
             <<"a", "b", "a">>),
       Slide(<< TextShape(<< <<"b", "a", "a">> >>) >>, <<>>) >>

SmallDeck(p) == << Slide(<< TextShape(<<p>>) >>, <<>>) >>

\* A single item over a deck whose first paragraph and search text vary
InitText ==
    /\ \E p \in StrsUpTo(Alphabet, MaxParaLen) \cup {<<"x">> \o DefaultSearchText} :
          disk = (FileX :> DeckFile(DeckAround(p))) @@ (FileMX :> Absent)
    /\ locked = {}
    /\ \E search \in [searchText : StrsUpTo(Alphabet, MaxSearchLen)] \cup {<<>>},
          repl \in [replaceText : {<<>>, <<"a">>, <<"b", "b">>}] \cup {<<>>} :
          items = << [file_path |-> FileX] @@ search @@ repl >>

BatchItems ==
    {<<>>, [file_path |-> <<>>]}
    \cup {[file_path |-> f] : f \in {FileX, FileMX}}
    \cup {[file_path |-> f, searchText |-> sr[1], replaceText |-> sr[2]] :
            f \in {FileX, FileMX},
            sr \in {<< <<"a">>, <<"b">> >>, << <<"b">>, <<"a">> >>}}

\* A batch over a directory in which x and modified_x may exist
InitBatch ==
    /\ \E cx \in {Absent, Corrupt, DeckFile(SmallDeck(<<"a", "b">>))},
          cmx \in {Absent, Corrupt, DeckFile(SmallDeck(<<"b">>))} :
          disk = (FileX :> cx) @@ (FileMX :> cmx) @@ (FileMMX :> Absent)
    /\ locked \in SUBSET {FileMX, FileMMX}
    /\ items \in SeqsUpTo(BatchItems, MaxItems)

IdleReplace ==
    /\ items = <<>> /\ new_items = <<>> /\ idx = 0 /\ disk = <<>>
    /\ locked = {} /\ items0 = <<>> /\ disk0 = <<>> /\ outcomes = <<>>
    /\ loaded = Absent
    /\ pc = "idle"

IdleExtract ==
    /\ x_items = <<>> /\ x_results = <<>> /\ x_idx = 0 /\ x_disk = <<>>
    /\ x_pc = "idle"

IdleAudio ==
    /\ env = <<>> /\ a_files = <<>> /\ a_dirs = {} /\ calls = 0
    /\ last = [phase |-> "idle"]

IdleCodec == fmt = <<>> /\ codec = "idle"

InitReplace ==
    /\ InitText \/ InitBatch
    /\ new_items = <<>> /\ idx = 0 /\ outcomes = <<>> /\ pc = "loop"
    /\ loaded = Absent
    /\ items0 = items /\ disk0 = disk
    /\ IdleExtract /\ IdleAudio /\ IdleCodec

NextReplace ==
    \/ ItemFileNotFound
    \/ ItemLoadRaises
    \/ ItemSaveRaises
    \/ ItemReplaced
    \/ ReturnNewItems

SpecReplace == InitReplace /\ [][NextReplace]_vars


-----------------------------------------------------------------------------
(* Properties of the replacement script *)

\* modified_<original filename> in the source's directory, as the text states it
ModifiedSibling(file_path) ==
    SubSeq(file_path, 1, Len(file_path) - 1)
        \o << ModifiedPrefix \o file_path[Len(file_path)] >>

SearchOf(item) == IF "searchText" \in DOMAIN item THEN item.searchText ELSE DefaultSearchText

ReplaceOf(item) == IF "replaceText" \in DOMAIN item THEN item.replaceText ELSE DefaultReplaceText

\* C1: the loop never lets an exception out; it returns one item per input
\* item, in input order, each the input item itself with result fields added;
\* an item that failed carries status and error, one that succeeded carries
\* status and output_path; the items after a failed one are processed too.
C1_OneResultPerItemInOrder ==
    /\ pc # "raised"
    /\ Len(new_items) = idx
    /\ pc = "done" => Len(new_items) = Len(items0)
    /\ \A k \in 1..Len(new_items) :
        /\ new_items[k] = items[k]
        /\ \A key \in DOMAIN items0[k] : new_items[k][key] = items0[k][key]
        /\ DOMAIN new_items[k] \subseteq
              DOMAIN items0[k] \cup {"status", "error", "output_path"}
        /\ "status" \in DOMAIN new_items[k]
        /\ outcomes[k] = "replaced" <=> "output_path" \in DOMAIN new_items[k]
        /\ outcomes[k] # "replaced" <=> "error" \in DOMAIN new_items[k]

\* C1 witness: a batch returned after its first item failed to load and its
\* second was replaced
C1_Witness ==
    /\ pc = "done"
    /\ Len(new_items) >= 2
    /\ outcomes[1] = "load_raises"
    /\ outcomes[2] = "replaced"

\* C3: a step of the script changes no file but modified_<name> beside the
\* item's file, which is never the item's file itself.
C3_OnlyModifiedSiblingWritten ==
    [][\A p \in DOMAIN disk :
          disk'[p] # disk[p] =>
             /\ idx < Len(items)
             /\ "file_path" \in DOMAIN items[idx + 1]
             /\ p = ModifiedSibling(items[idx + 1].file_path)
             /\ p # items[idx + 1].file_path]_vars

\* C3 witness: an item was replaced, its output was written and its source
\* still holds what it held
C3_Witness ==
    /\ idx > 0
    /\ outcomes[idx] = "replaced"
    /\ disk[ModifiedSibling(items0[idx].file_path)] # disk0[ModifiedSibling(items0[idx].file_path)]
    /\ disk[items0[idx].file_path] = disk0[items0[idx].file_path]

\* Reference replacement: literal, left to right, non-overlapping
RECURSIVE RefReplaceAll(_, _, _)
RefReplaceAll(text, search, repl) ==
    IF search = <<>>
    THEN IF text = <<>> THEN repl
         ELSE repl \o <<Head(text)>> \o RefReplaceAll(Tail(text), search, repl)
    ELSE IF text = <<>> THEN <<>>
    ELSE IF Len(search) <= Len(text) /\ \A j \in 1..Len(search) : text[j] = search[j]
         THEN repl \o RefReplaceAll(SubSeq(text, Len(search) + 1, Len(text)), search, repl)
         ELSE <<Head(text)>> \o RefReplaceAll(Tail(text), search, repl)

RefOccursIn(text, search) ==
    \E k \in 1..(Len(text) + 1) :
        /\ k + Len(search) - 1 <= Len(text)
        /\ \A j \in 1..Len(search) : text[k + j - 1] = search[j]

\* The saved deck agrees with the source deck under the reference replacement
RefAgrees(src, out, search, repl) ==
    /\ Len(out) = Len(src)
    /\ \A s \in 1..Len(src) :
        /\ out[s].notes = src[s].notes
        /\ Len(out[s].shapes) = Len(src[s].shapes)
        /\ \A k \in 1..Len(src[s].shapes) :
            LET a == src[s].shapes[k]
                b == out[s].shapes[k]
            IN  /\ b.has_text_frame = a.has_text_frame
                /\ b.has_table = a.has_table
                /\ b.table = a.table
                /\ Len(b.paragraphs) = Len(a.paragraphs)
                /\ \A p \in 1..Len(a.paragraphs) :
                     b.paragraphs[p] =
                        IF a.has_text_frame /\ RefOccursIn(a.paragraphs[p], search)
                        THEN RefReplaceAll(a.paragraphs[p], search, repl)
                        ELSE a.paragraphs[p]

\* C4: the deck just saved holds, paragraph by paragraph, the reference
\* replacement of the text-frame paragraphs of the deck that was loaded, and
\* that deck's table cells and notes unchanged.
C4_SavedDeckIsReferenceResult ==
    (idx > 0 /\ outcomes[idx] = "replaced") =>
        LET it == items0[idx]
        IN  /\ disk[ModifiedSibling(it.file_path)].kind = "deck"
            /\ RefAgrees(loaded.slides,
                         disk[ModifiedSibling(it.file_path)].slides,
                         SearchOf(it), ReplaceOf(it))

\* C4 witness: a paragraph holding the search text twice was rewritten
C4_Witness ==
    /\ idx = 1
    /\ outcomes[1] = "replaced"
    /\ "searchText" \in DOMAIN items0[1]
    /\ items0[1].searchText = <<"a">>
    /\ disk0[FileX].slides[1].shapes[1].paragraphs[1] = <<"a", "b", "a">>
    /\ disk[FileMX].slides[1].shapes[1].paragraphs[1] = <<"b", "b", "b", "b", "b">>

\* What the item yields when it is processed alone on the file system as found
Alone(item) == LoopBody(item, disk0, locked)

AloneOutputAgrees(k) ==
    "file_path" \in DOMAIN items0[k] /\ items0[k].file_path # <<>> =>
        LET out == ModifiedSibling(items0[k].file_path)
        IN  out \in DOMAIN disk => disk[out] = Alone(items0[k]).disk[out]

\* C5 as stated: every item of every batch gets the result fields it gets
\* alone, and the output file it has just written is the one it writes alone.
C5_Original ==
    /\ \A k \in 1..idx : new_items[k] = Alone(items0[k]).item
    /\ idx > 0 /\ outcomes[idx] = "replaced" => AloneOutputAgrees(idx)

\* No earlier item of the batch writes to item k's file
NotFedByEarlierItem(k) ==
    \A j \in 1..(k - 1) :
        "file_path" \in DOMAIN items0[j] /\ items0[j].file_path # <<>> =>
            ModifiedSibling(items0[j].file_path) # Get(items0[k], "file_path", <<>>)

\* C5 amended: an item whose file_path is not the modified_<filename> output
\* path of an earlier item of the batch gets the result fields it gets alone,
\* and the output file it has just written is the one it writes alone.
C5_IsolatedUnlessFedByEarlierItem ==
    /\ \A k \in 1..idx :
          NotFedByEarlierItem(k) => new_items[k] = Alone(items0[k]).item
    /\ (idx > 0 /\ outcomes[idx] = "replaced" /\ NotFedByEarlierItem(idx))
          => AloneOutputAgrees(idx)

\* C5 witness: the same file named twice with different search texts, both
\* replaced, the second after the first wrote the shared output path
C5_Witness ==
    /\ idx = 2
    /\ outcomes = <<"replaced", "replaced">>
    /\ items0[1].file_path = items0[2].file_path
    /\ SearchOf(items0[1]) # SearchOf(items0[2])
    /\ disk[ModifiedSibling(items0[2].file_path)] = Alone(items0[2]).disk[ModifiedSibling(items0[2].file_path)]
    /\ disk[ModifiedSibling(items0[2].file_path)] # Alone(items0[1]).disk[ModifiedSibling(items0[1].file_path)]


-----------------------------------------------------------------------------
(* n8n-output-slides-text.py *)

\* os.path.isfile
IsFile(d, path) == path \in DOMAIN d /\ d[path] = "file"

\* line 15
InvalidFilePath(d, file_path) == ~(file_path # <<>>) \/ ~IsFile(d, file_path)

\* lines 16-20
InvalidEntry(file_path) ==
    [success |-> FALSE,
     error |-> <<"Invalid file path: ", file_path>>,
     file_path |-> file_path]

\* lines 10-21: an item whose path is empty or no file gets a failure entry
ExtractItemInvalid ==
    /\ x_pc = "loop"
    /\ x_idx < Len(x_items)
    /\ LET file_path == Get(x_items[x_idx + 1], "file_path", <<>>)
       IN  /\ InvalidFilePath(x_disk, file_path)
           /\ x_results' = Append(x_results, InvalidEntry(file_path))
    /\ x_idx' = x_idx + 1
    /\ UNCHANGED <<x_items, x_disk, x_pc>>
    /\ UNCHANGED <<replaceVars, audioVars, codecVars>>

\* lines 10-15: for an item whose path is a file the loop body ends after the
\* check; the loading and writing code of lines 71-109 sits behind the return
\* of extract_slide_content and is not part of the loop
ExtractItemValid ==
    /\ x_pc = "loop"
    /\ x_idx < Len(x_items)
    /\ ~InvalidFilePath(x_disk, Get(x_items[x_idx + 1], "file_path", <<>>))
    /\ x_idx' = x_idx + 1
    /\ UNCHANGED <<x_items, x_results, x_disk, x_pc>>
    /\ UNCHANGED <<replaceVars, audioVars, codecVars>>

\* line 112
ReturnResults ==
    /\ x_pc = "loop"
    /\ x_idx = Len(x_items)
    /\ x_pc' = "done"
    /\ UNCHANGED <<x_items, x_results, x_idx, x_disk>>
    /\ UNCHANGED <<replaceVars, audioVars, codecVars>>

DeckP == <<<<"d">>, <<"p">>>>

DeckQ == <<<<"d">>, <<"q">>>>

ExtractItems == {<<>>, [file_path |-> <<>>], [file_path |-> DeckP], [file_path |-> DeckQ]}

InitExtract ==
    /\ x_disk \in [{DeckP, DeckQ} -> {"absent", "dir", "file"}]
    /\ x_items \in SeqsUpTo(ExtractItems, MaxItems)
    /\ x_results = <<>> /\ x_idx = 0 /\ x_pc = "loop"
    /\ IdleReplace /\ IdleAudio /\ IdleCodec

NextExtract ==
    \/ ExtractItemInvalid
    \/ ExtractItemValid
    \/ ReturnResults

SpecExtract == InitExtract /\ [][NextExtract]_vars

\* C2: the returned results hold one entry per input item, in input order: a
\* failure entry "Invalid file path: <path>" for an item whose path is empty
\* or no file, and a success entry (output_path, slide_count) or a failure
\* entry (error) for an item whose path is a file.
C2_OneEntryPerItem ==
    x_pc = "done" =>
        /\ Len(x_results) = Len(x_items)
        /\ \A k \in 1..Len(x_items) :
            LET file_path == IF "file_path" \in DOMAIN x_items[k]
                             THEN x_items[k].file_path ELSE <<>>
                e == x_results[k]
            IN  /\ e.file_path = file_path
                /\ IF file_path = <<>> \/ x_disk[file_path] # "file"
                   THEN /\ e.success = FALSE
                        /\ e.error = <<"Invalid file path: ", file_path>>
                   ELSE IF e.success
                        THEN {"output_path", "slide_count"} \subseteq DOMAIN e
                        ELSE "error" \in DOMAIN e

-----------------------------------------------------------------------------
(* n8n-create-blank-time.py: get_codec_for_format *)

UpperCase ==
    [c \in {"a", "c", "f", "g", "l", "m", "o", "p", "v", "w"} |->
        CASE c = "a" -> "A" [] c = "c" -> "C" [] c = "f" -> "F" [] c = "g" -> "G"
          [] c = "l" -> "L" [] c = "m" -> "M" [] c = "o" -> "O" [] c = "p" -> "P"
          [] c = "v" -> "V" [] c = "w" -> "W"]

\* str.lower() on the characters used here
LowerChar(c) ==
    IF \E l \in DOMAIN UpperCase : UpperCase[l] = c
    THEN CHOOSE l \in DOMAIN UpperCase : UpperCase[l] = c
    ELSE c

Lower(s) == [k \in DOMAIN s |-> LowerChar(s[k])]

Mp3 == <<"m", "p", "3">>

Wav == <<"w", "a", "v">>

Ogg == <<"o", "g", "g">>

Aac == <<"a", "a", "c">>

Flac == <<"f", "l", "a", "c">>

M4a == <<"m", "4", "a">>

\* lines 124-131
format_codec_map ==
    (Mp3 :> "libmp3lame") @@ (Wav :> "pcm_s16le") @@ (Ogg :> "libvorbis")
    @@ (Aac :> "aac") @@ (Flac :> "flac") @@ (M4a :> "aac")

\* a faulty variant of get_codec_for_format: the lookup is case-sensitive
get_codec_case_sensitive(output_format) ==
    Get(format_codec_map, output_format, "libmp3lame")

\* line 133
get_codec_for_format(output_format) ==
    Get(format_codec_map, Lower(output_format), "libmp3lame")

GetCodec ==
    /\ codec = "not called"
    /\ codec' = get_codec_for_format(fmt)
    /\ UNCHANGED fmt
    /\ UNCHANGED <<replaceVars, extractVars, audioVars>>

\* Every spelling of word in upper and lower case letters
CaseVariants(word) ==
    {s \in [DOMAIN word -> {"a", "c", "f", "g", "l", "m", "o", "p", "v", "w",
                            "A", "C", "F", "G", "L", "M", "O", "P", "V", "W",
                            "3", "4"}] :
        \A k \in DOMAIN word : LowerChar(s[k]) = word[k]}

KnownFormats == {Mp3, Wav, Ogg, Aac, Flac, M4a}

InitCodec ==
    /\ fmt \in UNION {CaseVariants(w) : w \in KnownFormats}
               \cup StrsUpTo({"m", "p", "3", "W", "x"}, MaxFmtLen)
    /\ codec = "not called"
    /\ IdleReplace /\ IdleExtract /\ IdleAudio

NextCodec == GetCodec

SpecCodec == InitCodec /\ [][NextCodec]_vars

\* fmt spells word, letter by letter, in either case
Spells(word, upper) ==
    /\ Len(fmt) = Len(word)
    /\ \A k \in 1..Len(word) : fmt[k] = word[k] \/ fmt[k] = upper[k]

\* C8: the codec is libmp3lame, pcm_s16le, libvorbis, aac, flac, aac for
\* mp3, wav, ogg, aac, flac, m4a spelled in any letter case, and libmp3lame
\* for every other format string.
C8_CodecTable ==
    codec # "not called" =>
        codec = CASE Spells(Mp3, <<"M", "P", "3">>) -> "libmp3lame"
                  [] Spells(Wav, <<"W", "A", "V">>) -> "pcm_s16le"
                  [] Spells(Ogg, <<"O", "G", "G">>) -> "libvorbis"
                  [] Spells(Aac, <<"A", "A", "C">>) -> "aac"
                  [] Spells(Flac, <<"F", "L", "A", "C">>) -> "flac"
                  [] Spells(M4a, <<"M", "4", "A">>) -> "aac"
                  [] OTHER -> "libmp3lame"

\* C8 witness: a known format spelled in mixed case was looked up
C8_Witness == fmt = <<"W", "a", "V">> /\ codec = "pcm_s16le"


-----------------------------------------------------------------------------
(* n8n-create-blank-time.py: get_ffmpeg_path, create_empty_audio, n8n_execute *)

WhichFfmpeg == "/usr/bin/ffmpeg"            \* what shutil.which finds

BundledFfmpeg == "imageio_ffmpeg/ffmpeg"    \* what get_ffmpeg_exe returns

GoodFfmpeg == "/opt/ffmpeg/bin/ffmpeg"      \* an explicit path that runs

BadFfmpeg == "/no/such/ffmpeg"              \* an explicit path that does not

\* What lines 32-33 do in environment e: the import fails, or get_ffmpeg_exe
\* raises RuntimeError for want of a binary, or it returns the bundled binary
ImageioOutcome(e) ==
    CASE e.imageio = "not_installed" -> [exc |-> "ImportError"]
      [] e.imageio = "no_binary"     -> [exc |-> "RuntimeError"]
      [] e.imageio = "bundled"       -> [exc |-> "", path |-> BundledFfmpeg]

\* line 34
LocatorCatches(exc) == exc = "ImportError"

\* a faulty variant of get_ffmpeg_path: the bare command name is handed back
\* when nothing was found
get_ffmpeg_path_bare_name(e) ==
    IF e.which THEN [raised |-> "", found |-> TRUE, path |-> WhichFfmpeg]
    ELSE LET r == ImageioOutcome(e)
         IN  IF r.exc = "" THEN [raised |-> "", found |-> TRUE, path |-> r.path]
             ELSE [raised |-> "", found |-> TRUE, path |-> GoodFfmpeg]

\* lines 17-38
get_ffmpeg_path(e) ==
    IF e.which THEN [raised |-> "", found |-> TRUE, path |-> WhichFfmpeg]
    ELSE LET r == ImageioOutcome(e)
         IN  IF r.exc = "" THEN [raised |-> "", found |-> TRUE, path |-> r.path]
             ELSE IF LocatorCatches(r.exc) THEN [raised |-> "", found |-> FALSE]
             ELSE [raised |-> r.exc, found |-> FALSE]

\* os.path.splitext(name)[0]: up to the last dot that follows a non-dot
SplitextRoot(name) ==
    LET dots == {k \in 1..Len(name) :
                    name[k] = "." /\ \E j \in 1..(k - 1) : name[j] # "."}
    IN  IF dots = {} THEN name
        ELSE SubSeq(name, 1, (CHOOSE k \in dots : \A j \in dots : j <= k) - 1)

\* lines 82-84
WithExtension(output_file, output_format) ==
    IF EndsWith(output_file, <<".">> \o output_format)
    THEN output_file
    ELSE SplitextRoot(output_file) \o <<".">> \o output_format

\* lines 87-89: the destination, a path
Destination(args) ==
    LET name == WithExtension(args.output_file, args.output_format)
    IN  IF "output_dir" \in DOMAIN args /\ args.output_dir # <<>>
        THEN Join(<<args.output_dir>>, name)
        ELSE <<name>>

\* lines 92-96: the command line; ffmpy puts no global option before the
\* inputs unless given some, so the command carries no -y
Command(args, executable) ==
    [executable |-> executable,
     global_options |-> {},
     source |-> [filter |-> "anullsrc", r |-> args.sample_rate,
                 cl |-> IF args.channels = 1 THEN "mono" ELSE "stereo"],
     output |-> Destination(args),
     t |-> args.duration,
     codec |-> get_codec_for_format(args.output_format),
     bitrate_k |-> args.bitrate]

\* The encoder process on command cmd, as call n: without -y ffmpeg leaves an
\* existing output alone and exits 1; otherwise it writes the output and exits
\* 0, or exits 0 without output, or (any other world) exits 1
EncoderRun(cmd, enc, files, n) ==
    IF files[cmd.output] # 0 /\ "-y" \notin cmd.global_options
    THEN [exit |-> 1, files |-> files]
    ELSE CASE enc = "works"     -> [exit |-> 0, files |-> [files EXCEPT ![cmd.output] = n]]
           [] enc = "no_output" -> [exit |-> 0, files |-> files]
           [] OTHER             -> [exit |-> 1, files |-> files]

\* a faulty variant of OutputExists: the existence test of lines 101-106 is skipped
OutputAssumed(files, output_file) == TRUE

\* line 101
OutputExists(files, output_file) == files[output_file] # 0

\* lines 107, 110: FFRuntimeError and every other Exception are caught
CreateCatches(exc) ==
    exc \in {"FFRuntimeError", "FFExecutableNotFoundError", "OSError", "RuntimeError"}

ReturnsNone == [none |-> TRUE]

ReturnsPath(path) == [none |-> FALSE, path |-> path]

\* lines 66-112: create_empty_audio as call n, in environment e; world says
\* what the call meets: makedirs failing, or the encoder working, failing or
\* exiting cleanly without output
create_empty_audio(args, e, world, files, dirs, n) ==
    LET nothing == [located |-> [called |-> FALSE], launched |-> FALSE, exit |-> -1,
                    exc |-> "", files |-> files, dirs |-> dirs]
        loc == IF "ffmpeg_path" \in DOMAIN args
               THEN [raised |-> "", found |-> TRUE, path |-> args.ffmpeg_path]
               ELSE get_ffmpeg_path(e)
        searched == [nothing EXCEPT
                        !.located = IF "ffmpeg_path" \in DOMAIN args
                                    THEN [called |-> FALSE]
                                    ELSE [called |-> TRUE] @@ loc]
        makes_dir == "output_dir" \in DOMAIN args /\ args.output_dir # <<>>
        dirs2 == IF makes_dir THEN dirs \cup {args.output_dir} ELSE dirs
        cmd == Command(args, loc.path)
        run == EncoderRun(cmd, world, files, n)
    IN  IF loc.raised # ""
        THEN [branch |-> "locator_raised", exc |-> loc.raised] @@ searched
        ELSE IF ~loc.found
        THEN [branch |-> "not_found", returned |-> ReturnsNone] @@ searched
        ELSE IF makes_dir /\ world = "makedirs_fails"
        THEN [branch |-> "os_error", exc |-> "OSError"] @@ searched
        ELSE IF loc.path = BadFfmpeg
        THEN [branch |-> "launch_failed", exc |-> "FFExecutableNotFoundError",
              dirs |-> dirs2] @@ searched
        ELSE IF run.exit # 0
        THEN [branch |-> "runtime_error", exc |-> "FFRuntimeError", launched |-> TRUE,
              exit |-> run.exit, files |-> run.files, dirs |-> dirs2] @@ searched
        ELSE IF OutputExists(run.files, cmd.output)
        THEN [branch |-> "created", returned |-> ReturnsPath(cmd.output),
              launched |-> TRUE, exit |-> 0, files |-> run.files, dirs |-> dirs2]
             @@ searched
        ELSE [branch |-> "no_file", returned |-> ReturnsNone, launched |-> TRUE,
              exit |-> 0, files |-> run.files, dirs |-> dirs2] @@ searched

\* lines 159-177: the arguments n8n_execute passes on
Arguments(params) ==
    [duration |-> params.duration,
     output_file |-> Get(params, "output_file",
        <<"e", "m", "p", "t", "y", "_", "a", "u", "d", "i", "o", ".", "m", "p", "3">>),
     sample_rate |-> Get(params, "sample_rate", 44100),
     bitrate |-> Get(params, "bitrate", 128),
     channels |-> Get(params, "channels", 2),
     output_format |-> Get(params, "output_format", Mp3)]
    @@ [k \in DOMAIN params \cap {"output_dir", "ffmpeg_path"} |-> params[k]]

\* lines 153-193: n8n_execute as call n
n8n_execute(params, e, world, files, dirs, n) ==
    IF "duration" \notin DOMAIN params
    THEN [branch |-> "no_duration", called |-> FALSE, files |-> files, dirs |-> dirs,
          launched |-> FALSE,
          response |-> [success |-> FALSE, error |-> "Duration parameter is required"]]
    ELSE LET args == Arguments(params)
             c == create_empty_audio(args, e, world, files, dirs, n)
             caught == c.exc # "" /\ CreateCatches(c.exc)
             returned == IF c.exc = "" THEN c.returned ELSE ReturnsNone
         IN  [branch |-> c.branch, called |-> TRUE, files |-> c.files, dirs |-> c.dirs,
              launched |-> c.launched, exit |-> c.exit, located |-> c.located,
              destination |-> Destination(args),
              raised |-> IF c.exc # "" /\ ~caught THEN c.exc ELSE "",
              returned |-> returned,
              response |->
                 IF c.exc # "" /\ ~caught
                 THEN [success |-> FALSE, error |-> c.exc]
                 ELSE IF ~returned.none
                 THEN [success |-> TRUE, file_path |-> returned.path,
                       duration |-> args.duration, format |-> args.output_format,
                       sample_rate |-> args.sample_rate, bitrate |-> args.bitrate,
                       channels |-> args.channels]
                 ELSE [success |-> FALSE, error |-> "Failed to create audio file"]]

(* Inputs of the audio script *)
OutDir == <<"o", "u", "t">>

Requests ==
    {d @@ f @@ o @@ [output_file |-> <<"a", ".", "m", "p", "3">>, output_format |-> format] :
        d \in {<<>>, [duration |-> 5]},
        f \in {<<>>, [ffmpeg_path |-> GoodFfmpeg], [ffmpeg_path |-> BadFfmpeg]},
        o \in {<<>>, [output_dir |-> OutDir]},
        format \in {Mp3, Wav}}

Worlds == {"works", "fails", "no_output", "makedirs_fails"}

Destinations ==
    {Destination(Arguments(q)) : q \in {r \in Requests : "duration" \in DOMAIN r}}

\* The workflow hands n8n_execute its next parameters
Submit ==
    /\ calls < MaxCalls
    /\ last.phase # "pending"
    /\ \E params \in Requests, world \in Worlds :
          last' = [phase |-> "pending", params |-> params, world |-> world]
    /\ calls' = calls + 1
    /\ UNCHANGED <<env, a_files, a_dirs>>
    /\ UNCHANGED <<replaceVars, extractVars, codecVars>>

\* n8n_execute on the parameters at hand, when it takes branch b
Call(b) ==
    /\ last.phase = "pending"
    /\ \E r \in {n8n_execute(last.params, env, last.world, a_files, a_dirs, calls)} :
          /\ r.branch = b
          /\ a_files' = r.files
          /\ a_dirs' = r.dirs
          /\ last' = [phase |-> "done", params |-> last.params, world |-> last.world,
                      existed |-> IF r.called THEN a_files[r.destination] # 0
                                  ELSE FALSE]
                     @@ [k \in DOMAIN r \ {"files", "dirs"} |-> r[k]]

\* lines 156-157
CallWithoutDuration ==
    /\ Call("no_duration")
    /\ UNCHANGED <<env, calls>>
    /\ UNCHANGED <<replaceVars, extractVars, codecVars>>

\* lines 68-76
CallEncoderNotFound ==
    /\ Call("not_found")
    /\ UNCHANGED <<env, calls>>
    /\ UNCHANGED <<replaceVars, extractVars, codecVars>>

\* lines 69, 110-112: the locator raised
CallLocatorRaised ==
    /\ Call("locator_raised")
    /\ UNCHANGED <<env, calls>>
    /\ UNCHANGED <<replaceVars, extractVars, codecVars>>

\* lines 88, 110-112
CallMakedirsFailed ==
    /\ Call("os_error")
    /\ UNCHANGED <<env, calls>>
    /\ UNCHANGED <<replaceVars, extractVars, codecVars>>

\* lines 99, 110-112: the executable could not be started
CallLaunchFailed ==
    /\ Call("launch_failed")
    /\ UNCHANGED <<env, calls>>
    /\ UNCHANGED <<replaceVars, extractVars, codecVars>>

\* lines 99, 107-109: the encoder exited with an error
CallEncoderFailed ==
    /\ Call("runtime_error")
    /\ UNCHANGED <<env, calls>>
    /\ UNCHANGED <<replaceVars, extractVars, codecVars>>

\* lines 104-106
CallNoOutputFile ==
    /\ Call("no_file")
    /\ UNCHANGED <<env, calls>>
    /\ UNCHANGED <<replaceVars, extractVars, codecVars>>

\* lines 101-103
CallCreated ==
    /\ Call("created")
    /\ UNCHANGED <<env, calls>>
    /\ UNCHANGED <<replaceVars, extractVars, codecVars>>

InitAudio ==
    /\ env \in [which : BOOLEAN, imageio : {"not_installed", "no_binary", "bundled"}]
    /\ a_files = [p \in Destinations |-> 0]
    /\ a_dirs = {}
    /\ calls = 0
    /\ last = [phase |-> "idle"]
    /\ IdleReplace /\ IdleExtract /\ IdleCodec

NextAudio ==
    \/ Submit
    \/ CallWithoutDuration
    \/ CallEncoderNotFound
    \/ CallLocatorRaised
    \/ CallMakedirsFailed
    \/ CallLaunchFailed
    \/ CallEncoderFailed
    \/ CallNoOutputFile
    \/ CallCreated

SpecAudio == InitAudio /\ [][NextAudio]_vars

-----------------------------------------------------------------------------
(* Properties of the audio script *)

Finished == last.phase = "done" /\ last.called

\* C6: create_empty_audio never raises; it returns the output path only after
\* an encoder process exited 0 and with the destination on disk; a clean exit
\* without the file, a failing exit, a failed launch and a failed makedirs
\* each return None.
C6_SuccessOnlyWithFileOnDisk ==
    Finished =>
        /\ last.raised = ""
        /\ ~last.returned.none =>
              /\ last.launched
              /\ last.exit = 0
              /\ last.returned.path = last.destination
              /\ a_files[last.destination] # 0
        /\ last.launched /\ last.exit = 0 /\ a_files[last.destination] = 0
              => last.returned.none
        /\ last.launched /\ last.exit # 0 => last.returned.none
        /\ ~last.launched => last.returned.none

\* C6 witness: the encoder exited 0, left no file, and None came back
C6_Witness ==
    /\ Finished
    /\ last.launched
    /\ last.exit = 0
    /\ a_files[last.destination] = 0
    /\ last.returned.none

Unresolvable == ~env.which /\ env.imageio # "bundled"

\* C7: with no encoder path given and none resolvable, the call launches no
\* process, creates no directory and no file, create_empty_audio returns None
\* and n8n_execute answers success = False with an error message.
C7_NotFoundTouchesNothing ==
    [][(/\ last.phase = "pending"
        /\ last'.phase = "done"
        /\ "duration" \in DOMAIN last.params
        /\ "ffmpeg_path" \notin DOMAIN last.params
        /\ Unresolvable)
       => /\ a_files' = a_files
          /\ a_dirs' = a_dirs
          /\ ~last'.launched
          /\ last'.called
          /\ last'.returned.none
          /\ last'.raised = ""
          /\ last'.response.success = FALSE
          /\ last'.response.error # ""]_vars

\* C7 witness: such a call, asking for an output directory, has ended
C7_Witness ==
    /\ Finished
    /\ "ffmpeg_path" \notin DOMAIN last.params
    /\ "output_dir" \in DOMAIN last.params
    /\ Unresolvable
    /\ last.located.called
    /\ a_dirs = {}
    /\ last.response.success = FALSE

\* C9: get_ffmpeg_path never raises; it returns the binary on the search
\* path if there is one, else the packaged binary if the package provides
\* one, else None.
C9_LocatorNeverRaises ==
    Finished /\ last.located.called =>
        /\ last.located.raised = ""
        /\ env.which => last.located.found /\ last.located.path = WhichFfmpeg
        /\ ~env.which /\ env.imageio = "bundled"
              => last.located.found /\ last.located.path = BundledFfmpeg
        /\ Unresolvable => ~last.located.found

\* The call had an encoder it could start
HadEncoder ==
    IF "ffmpeg_path" \in DOMAIN last.params
    THEN last.params.ffmpeg_path = GoodFfmpeg
    ELSE ~Unresolvable

\* C10: a call whose destination already exists, with a working encoder,
\* succeeds and leaves the file it has just encoded at the destination.
C10_ExistingOutputOverwritten ==
    Finished /\ last.existed /\ last.world = "works" /\ HadEncoder =>
        /\ ~last.returned.none
        /\ last.response.success
        /\ a_files[last.destination] = calls

=============================================================================
